---- MODULE Spec2Model ----
(***************************************************************************)
(* A state-machine model of src/src/model.py: the hybrid attention module  *)
(* (Attn) with its inference key/value cache, token selection and sliding  *)
(* window, and the mixture-of-experts router (DSMoE) with the bias         *)
(* balancer (Transformer.update_expert_biases).                            *)
(*                                                                         *)
(* Tensors are modelled by what the claims observe of them:                *)
(*  - a token representation is the token's index in the call's input;    *)
(*    the batch rows of a tensor are sliced uniformly ([:, :, a:b]) by     *)
(*    every cache statement, so the model keeps the batch size and one     *)
(*    representative row;                                                  *)
(*  - a rotary-encoded key is the pair (token, table row used);            *)
(*  - floating-point numbers are exact rationals over a common unit, and   *)
(*    a division by zero yields the non-finite result IEEE gives.          *)
(***************************************************************************)
EXTENDS Integers, Sequences, FiniteSets, TLC

(***************************************************************************)
(* Configuration, scaled down.                                             *)
(***************************************************************************)
\* config["ctx_len"] (2048 in the source), scaled down.
ctx_len == 3

\* config.get('num_tokens_to_keep', ctx_len // 4), scaled down.
num_tokens_to_keep == 2

\* config.get('window_size', 128), scaled down.
window_size == 2

\* DSMoE.__init__(index, num_exp=4): experts active per token, the shared
\* expert included.
num_exp == 4

\* config["n_experts"] (32 in the source), scaled down; expert 0 is shared.
num_experts == 5

\* config["type"] (['mlp', 'moe', 'mlp', 'moe'] in the source), scaled down
\* to one block of each kind: the feed-forward sublayer of each block.
ffn_type == <<"mlp", "moe">>

\* The gate's softmax output is a positive vector summing to 1, modelled in
\* units of 1/GateTotal.
GateTotal == 5

\* The update_rate argument of update_expert_biases, in the same units.
UpdateRates == {3}

\* The tokens (b * t rows of x_flat) of one forward call.
MoETokens == {1}

\* Bias updates explored.
MaxUpdates == 4

\* The longest prompt generate is started with.
MaxPrompt == 3

\* generate's max_new_tokens.
max_new_tokens == 3

\* Token ids (config["vocab_size"] is 65 in the source), scaled down.
Vocab == {0, 1}

\* generate's idx before it is given a prompt.
NoIdx == [batch |-> 0, row |-> <<>>]

\* The values config['num_tokens_to_keep'] is given: any integer.
KeepCounts == (0 - 1)..num_tokens_to_keep

\* The largest `end` a rotary table is precomputed with.
MaxRopeEnd == 3

\* The capacities (precompute_freqs_cis's `end`) of the tables apply_rope is
\* applied to; config["ctx_len"] is any positive integer.
RopeEnds == 1..MaxRopeEnd

\* The longest sequence apply_rope is applied to.
MaxRopeLen == 4

\* The values of an element of apply_rope's input.
RopeVals == {0, 1, 2}

\* The batch sizes a call is made with.
BatchSizes == {1, 2}

\* The values importance_scorer gives a token.
ScoreVals == {0, 1, 2}

\* The exception marker of a call that raised nothing.
None == "None"

\* k_cache / v_cache before the first allocation (None in the source).
NoCache == [batch |-> 0, row |-> <<>>]

\* current_pos=None, the default of _get_sliding_window_tokens.
NoPos == 0 - 1

Min(a, b) == IF a < b THEN a ELSE b

Max(a, b) == IF a > b THEN a ELSE b

\* Attn.forward is reached through Transformer.forward only, whose position
\* table has ctx_len rows and whose generate() crops the context to ctx_len:
\* a call carries 1..ctx_len tokens.
SeqLens == 1..ctx_len

\* The input of a call with T tokens (one batch row): a token is identified
\* by its index in the call.
InputTokens(T) == [i \in 1..T |-> i - 1]

VARIABLES
    \* Attn: the module's state and the last forward call
    training,          \* self.training at the last forward call
    T,                 \* the last call's sequence length
    B,                 \* the last call's batch size
    k_cache,           \* NoCache, or [batch, row]: row[i] is key slot i
    v_cache,           \* NoCache, or [batch, row]: row[i] is value slot i
    cache_filled,      \* self.cache_filled
    attn_mask,         \* branch 1: attn_mask[i] = key positions query i may see
    raised,            \* the exception the last call raised, or None
    old_filled,        \* history: cache_filled when the last call began
    old_batch,         \* history: k_cache's batch size when the last call began
    \* Attn: the key/value sets of branches 2 and 3 of one forward call
    importance_scores, \* importance_scorer(x), one batch row
    selected_indices,  \* indices returned by _select_important_tokens
    k_selected,        \* branch 2 keys after apply_rope
    window_tokens,     \* indices of x that _get_sliding_window_tokens kept
    tokens_to_keep,    \* self.num_tokens_to_keep
    branch_raised,     \* the exception the selection branch raised, or None
    \* DSMoE and the bias balancer
    expert_bias,       \* expert_bias[blk][e]: block blk's bias of expert e
    all_router_weights,\* the last Transformer.forward's router weights
    last_op,           \* "init", "forward" or "update"
    n_updates,         \* update_expert_biases calls so far
    update_rate,       \* the last update_expert_biases call's update_rate
    bias_before,       \* history: expert_bias when the last update began
    \* apply_rope applied to a table of any capacity
    rope_table,        \* the precomputed table (cos_freqs, sin_freqs)
    rope_x,            \* the sequence the last apply_rope call was given
    rope_out,          \* the rotated sequence, <<>> if the call raised
    rope_raised,       \* the exception the last apply_rope call raised, or None
    \* Transformer.generate
    idx,               \* [batch, row]: row is the token ids of one batch row
    prompt_len,        \* history: the length of the prompt generate was given
    gen_steps          \* iterations of generate's loop completed

cache_vars == <<training, T, B, k_cache, v_cache, cache_filled, attn_mask,
                raised, old_filled, old_batch>>

branch_vars == <<importance_scores, selected_indices, k_selected, window_tokens,
                 tokens_to_keep, branch_raised>>

moe_vars == <<expert_bias, all_router_weights, last_op, n_updates,
              update_rate, bias_before>>

rope_vars == <<rope_table, rope_x, rope_out, rope_raised>>

gen_vars == <<idx, prompt_len, gen_steps>>

vars == <<cache_vars, branch_vars, moe_vars, rope_vars, gen_vars>>

(***************************************************************************)
(* Rotary encoder.                                                         *)
(***************************************************************************)
\* precompute_freqs_cis(dim, end): one row per position 0..end-1; the row for
\* position p holds cos/sin of p * freqs, modelled by p itself.
precompute_freqs_cis(end) == [p \in 0..(end - 1) |-> p]

\* Attn.__init__, line 173.
freqs_cis == precompute_freqs_cis(ctx_len)

\* Broadcasting of the sequence axis in x_real * cos_seq.
Broadcastable(a, b) == a = b \/ a = 1 \/ b = 1

\* The number of rows of a table (the `end` it was precomputed with).
Capacity(table) == Cardinality(DOMAIN table)

\* lines 75-76: the number of rows of cos_freqs[:seq_len]; a slice past the
\* end of a tensor stops at the end.
SliceRows(seq_len, table) == Min(seq_len, Capacity(table))

\* lines 81-84: the element-wise product raises when the sequence axes of x
\* and cos_seq cannot be broadcast.
RopeRaises(seq_len, table) == ~Broadcastable(seq_len, SliceRows(seq_len, table))

\* apply_rope: rows[:seq_len] of the table, multiplied element-wise into the
\* sequence axis. Element i (0-based) of the result is rotated by table row i
\* (or by row 0 when a single row is broadcast).
apply_rope(seq, table) ==
    LET seq_len == Len(seq)
        rows == SliceRows(seq_len, table)
    IN  IF RopeRaises(seq_len, table)
        THEN "RuntimeError"
        ELSE [i \in 1..seq_len |->
                 [tok |-> seq[i],
                  pos |-> IF rows = 1 THEN table[0] ELSE table[i - 1]]]

\* One call apply_rope(x, x, freqs_cis), lines 71-87: the table is read, never
\* assigned.
ApplyRope ==
    \E len \in 1..MaxRopeLen : \E x \in [1..len -> RopeVals] :
        /\ rope_x' = x
        /\ rope_raised' =
              IF RopeRaises(len, rope_table) THEN "RuntimeError" ELSE None
        /\ rope_out' =
              IF RopeRaises(len, rope_table) THEN <<>>
              ELSE apply_rope(x, rope_table)
        /\ rope_table' = rope_table
        /\ UNCHANGED <<cache_vars, branch_vars, moe_vars, gen_vars>>

(***************************************************************************)
(* Branch 2: token selection.                                              *)
(***************************************************************************)
\* All orderings of the elements of set S as sequences.
RECURSIVE Perms(_)
Perms(S) ==
    IF S = {} THEN {<<>>}
    ELSE UNION {{<<e>> \o p : p \in Perms(S \ {e})} : e \in S}

\* torch.topk(scores, k, dim=-1): the (0-based) indices of k largest scores,
\* largest first; which of several equal scores is taken, and their order, is
\* the primitive's choice.
topk(scores, k) ==
    LET n == Len(scores)
        Subsets == {S \in SUBSET (0..(n - 1)) :
                      /\ Cardinality(S) = k
                      /\ \A i \in S : \A j \in (0..(n - 1)) \ S :
                            scores[i + 1] >= scores[j + 1]}
    IN  {p \in UNION {Perms(S) : S \in Subsets} :
            \A a \in 1..Len(p) : \A b \in 1..Len(p) :
                a < b => scores[p[a] + 1] >= scores[p[b] + 1]}

\* Insert v into the ascending sequence s.
RECURSIVE InsertSorted(_, _)
InsertSorted(v, s) ==
    IF s = <<>> THEN <<v>>
    ELSE IF v <= Head(s) THEN <<v>> \o s
    ELSE <<Head(s)>> \o InsertSorted(v, Tail(s))

\* Mutant of sort: the indices are left in topk's order.
Mut_sort(s) == s

\* torch.sort(indices, dim=1): ascending.
RECURSIVE sort(_)
sort(s) == IF s = <<>> THEN <<>> ELSE InsertSorted(Head(s), sort(Tail(s)))

\* The number of tokens _select_important_tokens asks topk for, in a module
\* whose self.num_tokens_to_keep is keep.
SelectCount(keep, len) == Min(keep, len)

\* torch.topk raises RuntimeError ("selected index k out of range") unless
\* 0 <= k <= size; k = 0 is accepted and gives empty tensors.
TopkRaises(scores, k) == k < 0 \/ k > Len(scores)

\* _select_important_tokens: the possible index tensors (one batch row).
select_important_tokens(keep, len, scores) ==
    {sort(p) : p \in topk(scores, SelectCount(keep, len))}

\* selected_tokens = x[batch_indices, indices]
Gather(xs, indices) == [i \in 1..Len(indices) |-> xs[indices[i] + 1]]

(***************************************************************************)
(* Branch 3: sliding window.                                               *)
(***************************************************************************)
\* _get_sliding_window_tokens(x, current_pos): the (0-based) indices kept.
get_sliding_window_tokens(is_training, len, current_pos) ==
    IF is_training \/ current_pos = NoPos
    THEN [i \in 1..len |-> i - 1]
    ELSE LET window_start == Max(0, current_pos - (window_size \div 2))
             window_end == Min(len, window_start + window_size)
         IN  [i \in 1..Max(0, window_end - window_start) |->
                 window_start + i - 1]

(***************************************************************************)
(* Inference cache.                                                        *)
(***************************************************************************)
\* An empty key slot (torch.zeros).
ZeroKey == [tok |-> 0 - 1, pos |-> 0 - 1]

\* An empty value slot (torch.zeros).
ZeroValue == 0 - 1

\* Mutant of NeedsRealloc: the batch size of the cache is not compared.
Mut_NeedsRealloc(kc, vc, b) == kc = NoCache \/ vc = NoCache

\* line 287: the cache is missing or was allocated for another batch size.
NeedsRealloc(kc, vc, b) == kc = NoCache \/ vc = NoCache \/ kc.batch # b

\* line 288: a fresh key cache for batch size b.
AllocK(b) == [batch |-> b, row |-> [i \in 0..(ctx_len - 1) |-> ZeroKey]]

\* line 289: a fresh value cache for batch size b.
AllocV(b) == [batch |-> b, row |-> [i \in 0..(ctx_len - 1) |-> ZeroValue]]

\* line 290: the fill pointer the append starts from.
StartFilled(realloc, filled) == IF realloc THEN 0 ELSE filled

\* Mutant of new_cache_filled: the fill pointer is not clamped.
Mut_new_cache_filled(filled, len) == filled + len

\* line 291
new_cache_filled(filled, len) == Min(filled + len, ctx_len)

\* Mutant of to_cache: the last n elements are kept instead of the first.
Mut_to_cache(src, n) ==
    [i \in 1..Min(Max(n, 0), Len(src)) |-> src[Len(src) - Min(Max(n, 0), Len(src)) + i]]

\* lines 292-293: the first n elements of the call's keys (values).
to_cache(src, n) == [i \in 1..Min(Max(n, 0), Len(src)) |-> src[i]]

\* lines 294-295: cache[:, :, filled:new_filled] = src.
WriteSlots(row, filled, new_filled, src) ==
    [i \in DOMAIN row |->
        IF i >= filled /\ i < new_filled /\ (i - filled + 1) \in DOMAIN src
        THEN src[i - filled + 1] ELSE row[i]]

\* F.scaled_dot_product_attention(q, k, v, is_causal=True) with L queries and
\* S keys: the lower-triangular mask is aligned to the upper-left corner, so
\* query i (1-based) sees keys 0..i-1.
CausalMask(L, S) == [i \in 1..L |-> {j \in 0..(S - 1) : j <= i - 1}]

\* lines 287-296: the cache and fill pointer after an inference-mode call.
InferenceCache(kc, vc, filled, b, k_new, v_new) ==
    LET realloc == NeedsRealloc(kc, vc, b)
        kc0 == IF realloc THEN AllocK(b) ELSE kc
        vc0 == IF realloc THEN AllocV(b) ELSE vc
        f0 == StartFilled(realloc, filled)
        nf == new_cache_filled(f0, Len(k_new))
        k_to_cache == to_cache(k_new, nf - f0)
        v_to_cache == to_cache(v_new, nf - f0)
    IN  [k |-> [kc0 EXCEPT !.row = WriteSlots(kc0.row, f0, nf, k_to_cache)],
         v |-> [vc0 EXCEPT !.row = WriteSlots(vc0.row, f0, nf, v_to_cache)],
         filled |-> nf,
         raised |-> None]

\* Mutant of TrainingFilled: a training-mode call leaves the fill pointer.
Mut_TrainingFilled(filled) == filled

\* line 281: the fill pointer after a training-mode call.
TrainingFilled(filled) == 0

(***************************************************************************)
(* Attn.forward, lines 208-310: what a call does to the module's state,    *)
(* and the mask of branch 1.                                               *)
(***************************************************************************)
\* A call on the tokens xs (one batch row) with batch size b.
ForwardOn(is_training, b, xs) ==
    LET len == Len(xs)
        k_recombined_1 == apply_rope(xs, freqs_cis)
        value_1 == xs
        c == InferenceCache(k_cache, v_cache, cache_filled, b,
                            k_recombined_1, value_1)
    IN  /\ training' = is_training
        /\ T' = len
        /\ B' = b
        /\ old_filled' = cache_filled
        /\ old_batch' = k_cache.batch
        /\ IF is_training
           THEN /\ cache_filled' = TrainingFilled(cache_filled)
                /\ attn_mask' = CausalMask(len, len)
                /\ raised' = None
                /\ UNCHANGED <<k_cache, v_cache>>
           ELSE /\ k_cache' = c.k
                /\ v_cache' = c.v
                /\ cache_filled' = c.filled
                /\ raised' = c.raised
                /\ attn_mask' = CausalMask(len, c.filled)
        /\ UNCHANGED <<branch_vars, moe_vars, rope_vars>>

\* A call on a sequence of len tokens, outside generate.
Forward(is_training, b, len) ==
    /\ ForwardOn(is_training, b, InputTokens(len))
    /\ UNCHANGED gen_vars

ForwardTraining == \E b \in BatchSizes : \E len \in SeqLens : Forward(TRUE, b, len)

ForwardInference == \E b \in BatchSizes : \E len \in SeqLens : Forward(FALSE, b, len)

(***************************************************************************)
(* Transformer.generate, lines 500-515: one iteration of the loop, as an   *)
(* attention module sees it (the model is in eval mode). A token is        *)
(* identified by its position in idx.                                      *)
(***************************************************************************)
\* line 501
start_pos(len) == Max(0, len - ctx_len)

\* line 502: idx_cond = idx[:, start_pos:], as the positions it holds.
idx_cond(len) == [j \in 1..(len - start_pos(len)) |-> start_pos(len) + j - 1]

GenerateStep ==
    /\ idx # NoIdx
    /\ gen_steps < max_new_tokens
    /\ ForwardOn(FALSE, idx.batch, idx_cond(Len(idx.row)))
    /\ \E idx_next \in Vocab :
          idx' = [idx EXCEPT !.row = Append(idx.row, idx_next)]
    /\ gen_steps' = gen_steps + 1
    /\ UNCHANGED prompt_len

(***************************************************************************)
(* Attn.forward, lines 253-277: the key sets of branches 2 and 3, a pure   *)
(* function of the call's input.                                           *)
(***************************************************************************)
BuildBranches(is_training, len, scores) ==
    /\ importance_scores' = scores
    /\ training' = is_training
    /\ T' = len
    /\ tokens_to_keep' = tokens_to_keep
    /\ IF TopkRaises(scores, SelectCount(tokens_to_keep, len))
       THEN \* line 254 raises; the call ends there
            /\ branch_raised' = "RuntimeError"
            /\ selected_indices' = <<>>
            /\ k_selected' = <<>>
            /\ window_tokens' = <<>>
       ELSE \E indices \in select_important_tokens(tokens_to_keep, len, scores) :
               LET xs == InputTokens(len)
                   selected_tokens == Gather(xs, indices)
               IN  /\ branch_raised' = None
                   /\ selected_indices' = indices
                   /\ k_selected' = apply_rope(selected_tokens, freqs_cis)
                   /\ window_tokens' =
                         get_sliding_window_tokens(is_training, len, NoPos)
    /\ UNCHANGED <<B, k_cache, v_cache, cache_filled, attn_mask,
                   raised, old_filled, old_batch>>
    /\ UNCHANGED <<moe_vars, rope_vars, gen_vars>>

BranchesTraining ==
    \E len \in SeqLens : \E scores \in [1..len -> ScoreVals] :
        BuildBranches(TRUE, len, scores)

BranchesInference ==
    \E len \in SeqLens : \E scores \in [1..len -> ScoreVals] :
        BuildBranches(FALSE, len, scores)

(***************************************************************************)
(* Floating-point values as rationals num/den. A zero denominator is a     *)
(* non-finite value: num = 1 is +inf, num = -1 is -inf, num = 0 is NaN.    *)
(***************************************************************************)
Sgn(z) == IF z > 0 THEN 1 ELSE IF z < 0 THEN 0 - 1 ELSE 0

Abs(z) == IF z < 0 THEN 0 - z ELSE z

RECURSIVE Gcd(_, _)
Gcd(a, b) == IF b = 0 THEN a ELSE Gcd(b, a % b)

\* n / d for integers n, d, in lowest terms with a positive denominator;
\* x/0 is an infinity of x's sign and 0/0 is NaN, as IEEE division gives.
RatDiv(n, d) ==
    IF d = 0 THEN [num |-> Sgn(n), den |-> 0]
    ELSE LET g == Gcd(Abs(n), Abs(d))
         IN  [num |-> (Sgn(d) * n) \div g, den |-> Abs(d) \div g]

RatZero == RatDiv(0, 1)

NaN == RatDiv(0, 0)

IsFinite(r) == r.den # 0

\* r * n / d for a positive constant n / d.
RatScale(r, n, d) == IF IsFinite(r) THEN RatDiv(r.num * n, r.den * d) ELSE r

\* a + b; inf + (-inf) and anything + NaN are NaN.
RatAdd(a, b) ==
    IF IsFinite(a) /\ IsFinite(b)
    THEN RatDiv(a.num * b.den + b.num * a.den, a.den * b.den)
    ELSE IF IsFinite(a) THEN b
    ELSE IF IsFinite(b) THEN a
    ELSE IF a.num = b.num THEN a
    ELSE NaN

RatNeg(a) == [num |-> 0 - a.num, den |-> a.den]

RatSub(a, b) == RatAdd(a, RatNeg(b))

\* torch.sign: (0 < a) - (a < 0), which is 0 for NaN.
RatSign(a) == Sgn(a.num)

\* a = b; NaN equals nothing.
RatEq(a, b) == a = b /\ a # NaN

\* a # 0; NaN and the infinities differ from 0.
RatNonZero(a) == a # RatZero

\* a >= 0; NaN compares false.
RatNonNeg(a) == IF IsFinite(a) THEN a.num >= 0 ELSE a.num = 1

\* a > b and a < b; a comparison with NaN is false.
RatGreater(a, b) == RatSub(a, b) # NaN /\ RatSign(RatSub(a, b)) = 1

RatLess(a, b) == RatGreater(b, a)

\* The sum of f[i] over the finite set S of its arguments (tensor.sum).
RECURSIVE RatSum(_, _)
RatSum(f, S) ==
    IF S = {} THEN RatZero
    ELSE LET i == CHOOSE j \in S : \A k \in S : j <= k
         IN  RatAdd(f[i], RatSum(f, S \ {i}))

RECURSIVE IntSum(_, _)
IntSum(f, S) ==
    IF S = {} THEN 0
    ELSE LET i == CHOOSE j \in S : TRUE IN f[i] + IntSum(f, S \ {i})

(***************************************************************************)
(* DSMoE.forward, lines 359-377: the router weights.                       *)
(***************************************************************************)
\* The routable experts; column e of router_weights is expert e, column 0
\* the shared expert.
Routable == 1..(num_experts - 1)

\* The blocks whose feed-forward sublayer is a DSMoE, in block order.
MoEBlocks == {blk \in 1..Len(ffn_type) : ffn_type[blk] = "moe"}

\* self.gate(x_flat) for one token: a softmax output over the routable
\* experts.
GateRows ==
    {g \in [Routable -> 1..(GateTotal - (num_experts - 2))] :
        IntSum(g, Routable) = GateTotal}

\* lines 363-374 for one token, given the order topk returned: order[i] is the
\* 0-based index of the i-th selected routable expert.
RouterRow(biased_gate_vals, order) ==
    LET k == Len(order)
        picked == [i \in 1..k |-> biased_gate_vals[order[i] + 1]]
        total == IntSum(picked, 1..k)
        gate_vals == [i \in 1..k |-> RatDiv(picked[i], total)]
        shared_expert_weight == RatDiv(1, num_exp)
        vals == <<shared_expert_weight>> \o
                [i \in 1..k |-> RatScale(gate_vals[i], num_exp - 1, num_exp)]
        gate_val_indices == <<0>> \o [i \in 1..k |-> order[i] + 1]
    IN  [e \in 0..(num_experts - 1) |->
            RatSum(vals, {i \in 1..(k + 1) : gate_val_indices[i] = e})]

\* The rows DSMoE.forward may give a token whose gate output is g.
RouterRows(g, bias) ==
    LET biased_gate_vals == [e \in Routable |-> g[e] + bias[e]]
    IN  {RouterRow(biased_gate_vals, order) :
            order \in topk(biased_gate_vals, num_exp - 1)}

\* The router_weights tensors one DSMoE layer may return for a batch.
LayerOutputs(bias) ==
    LET rows == UNION {RouterRows(g, bias) : g \in GateRows}
    IN  [MoETokens -> rows]

(***************************************************************************)
(* Transformer.forward, lines 454-462: the router weights of every DSMoE   *)
(* block, appended in block order.                                         *)
(***************************************************************************)
\* The position in all_router_weights of block blk's weights (1-based).
WeightIndex(blk) == Cardinality({b \in MoEBlocks : b <= blk})

TransformerForward ==
    /\ LET outputs == [blk \in MoEBlocks |-> LayerOutputs(expert_bias[blk])]
           any == UNION {outputs[blk] : blk \in MoEBlocks}
       IN  \E out \in {f \in [MoEBlocks -> any] :
                          \A blk \in MoEBlocks : f[blk] \in outputs[blk]} :
              all_router_weights' =
                  [j \in 1..Cardinality(MoEBlocks) |->
                      out[CHOOSE blk \in MoEBlocks : WeightIndex(blk) = j]]
    /\ last_op' = "forward"
    /\ UNCHANGED <<expert_bias, n_updates, update_rate, bias_before>>
    /\ UNCHANGED <<cache_vars, branch_vars, rope_vars, gen_vars>>

(***************************************************************************)
(* Transformer.update_expert_biases, lines 569-580.                        *)
(***************************************************************************)
\* line 576: c_i = router_weights[:, 1:].sum(dim=0)
ExpertLoad(router_weights) ==
    [e \in Routable |-> RatSum([t \in MoETokens |-> router_weights[t][e]], MoETokens)]

\* lines 577-578: c_i_bar
MeanLoad(c_i) == RatScale(RatSum(c_i, Routable), 1, num_experts - 1)

\* line 579: e_i = c_i - c_i_bar
LoadError(c_i) == [e \in Routable |-> RatSub(c_i[e], MeanLoad(c_i))]

\* Mutant of BiasStep: the error itself is applied instead of its sign.
Mut_BiasStep(rate, err) ==
    IF IsFinite(err) THEN rate * err.num ELSE 0

\* line 580: update_rate * torch.sign(e_i), one component.
BiasStep(rate, err) == rate * RatSign(err)

\* lines 576-580 for one block.
UpdatedBias(bias, router_weights, rate) ==
    LET e_i == LoadError(ExpertLoad(router_weights))
    IN  [e \in Routable |-> bias[e] + BiasStep(rate, e_i[e])]

UpdateExpertBiases ==
    /\ last_op # "init"
    /\ n_updates < MaxUpdates
    /\ \E rate \in UpdateRates :
          /\ update_rate' = rate
          /\ expert_bias' =
                [blk \in MoEBlocks |->
                    UpdatedBias(expert_bias[blk],
                                all_router_weights[WeightIndex(blk)], rate)]
    /\ bias_before' = expert_bias
    /\ n_updates' = n_updates + 1
    /\ last_op' = "update"
    /\ UNCHANGED all_router_weights
    /\ UNCHANGED <<cache_vars, branch_vars, rope_vars, gen_vars>>

(***************************************************************************)
(* Specifications.                                                         *)
(***************************************************************************)
\* Attn.__init__, lines 166-173, before any call, holding the rotary table
\* `table` and configured to keep `keep` selected tokens (line 124 stores the
\* configured value as it is).
Constructed(table, keep, prompt) ==
    /\ training = TRUE
    /\ T = 0
    /\ B = 0
    /\ k_cache = NoCache
    /\ v_cache = NoCache
    /\ cache_filled = 0
    /\ attn_mask = <<>>
    /\ raised = None
    /\ old_filled = 0
    /\ old_batch = 0
    /\ importance_scores = <<>>
    /\ selected_indices = <<>>
    /\ k_selected = <<>>
    /\ window_tokens = <<>>
    /\ tokens_to_keep = keep
    /\ branch_raised = None
    /\ expert_bias = [blk \in MoEBlocks |-> [e \in Routable |-> 0]]
    /\ all_router_weights = <<>>
    /\ last_op = "init"
    /\ n_updates = 0
    /\ update_rate = 0
    /\ bias_before = [blk \in MoEBlocks |-> [e \in Routable |-> 0]]
    /\ rope_table = table
    /\ rope_x = <<>>
    /\ rope_out = <<>>
    /\ rope_raised = None
    /\ idx = prompt
    /\ prompt_len = Len(prompt.row)
    /\ gen_steps = 0

\* The module as config["ctx_len"] builds it.
Init == Constructed(freqs_cis, num_tokens_to_keep, NoIdx)

\* The module built with a rotary table of any capacity.
InitRope ==
    \E end \in RopeEnds :
        Constructed(precompute_freqs_cis(end), num_tokens_to_keep, NoIdx)

\* Any sequence of forward calls on one attention module.
Next == ForwardTraining \/ ForwardInference

Spec == Init /\ [][Next]_vars

\* The branch builders applied to any input.
NextBranches == BranchesTraining \/ BranchesInference

SpecBranches == Init /\ [][NextBranches]_vars

\* Forward passes and bias updates of the model's DSMoE blocks.
NextMoE == TransformerForward \/ UpdateExpertBiases

SpecMoE == Init /\ [][NextMoE]_vars

\* The module configured with any selection count.
InitSelect == \E keep \in KeepCounts : Constructed(freqs_cis, keep, NoIdx)

\* The branch builders of a module configured with any selection count.
NextSelect == BranchesTraining \/ BranchesInference

SpecSelect == InitSelect /\ [][NextSelect]_vars

\* A freshly constructed model at the start of generate(idx, max_new_tokens)
\* with any prompt.
InitGenerate ==
    \E b \in BatchSizes : \E P \in 1..MaxPrompt : \E row \in [1..P -> Vocab] :
        Constructed(freqs_cis, num_tokens_to_keep, [batch |-> b, row |-> row])

NextGenerate == GenerateStep

SpecGenerate == InitGenerate /\ [][NextGenerate]_vars

\* apply_rope applied to sequences of any length, on a table of any capacity.
NextRope == ApplyRope

SpecRope == InitRope /\ [][NextRope]_vars

(***************************************************************************)
(* Claims about the inference cache (specification Spec).                  *)
(***************************************************************************)
\* The key and value the j-th token (0-based) of a call contributes to
\* branch 1: the token itself, rotated by table row j.
CallKey(j) == [tok |-> j, pos |-> j]

CallValue(j) == j

\* C1: after every forward call, in any mix of training and inference mode,
\* batch sizes and sequence lengths 1..ctx_len, the fill pointer
\* cache_filled lies in 0..ctx_len.
C1_FillPointerInRange == cache_filled \in 0..ctx_len

\* An inference call found the cache nearly full, wrote what fitted and was
\* clamped to ctx_len.
C1_Witness ==
    /\ ~training
    /\ T > 0
    /\ old_batch = B
    /\ old_filled > 0
    /\ old_filled + T > ctx_len
    /\ cache_filled = ctx_len

\* C2: an inference-mode call with T tokens, made with the batch size of the
\* allocated cache when cache_filled + T > ctx_len, writes the first
\* ctx_len - cache_filled tokens of the call into slots
\* cache_filled..ctx_len-1, leaves cache_filled = ctx_len, leaves the earlier
\* slots as they were and raises nothing.
C2_ClippedAppend ==
    [][ ( /\ ~training'
          /\ k_cache # NoCache
          /\ v_cache # NoCache
          /\ k_cache.batch = B'
          /\ cache_filled + T' > ctx_len )
        => /\ raised' = None
           /\ cache_filled' = ctx_len
           /\ k_cache'.batch = k_cache.batch
           /\ v_cache'.batch = v_cache.batch
           /\ \A i \in 0..(ctx_len - 1) :
                IF i < cache_filled
                THEN /\ k_cache'.row[i] = k_cache.row[i]
                     /\ v_cache'.row[i] = v_cache.row[i]
                ELSE /\ k_cache'.row[i] = CallKey(i - cache_filled)
                     /\ v_cache'.row[i] = CallValue(i - cache_filled) ]_vars

\* A call with more tokens than free slots filled the last slots with its
\* first tokens.
C2_Witness ==
    /\ ~training
    /\ raised = None
    /\ old_batch = B
    /\ old_filled > 0
    /\ old_filled < ctx_len
    /\ old_filled + T > ctx_len
    /\ cache_filled = ctx_len
    /\ k_cache.row[ctx_len - 1] = CallKey(ctx_len - 1 - old_filled)

\* C3: in an inference-mode call that leaves the fill pointer at F, the query
\* of the call's newest token may attend to every cached position 0..F-1.
C3_NewestQuerySeesPrefix ==
    (~training /\ T > 0) => attn_mask[T] = 0..(cache_filled - 1)

\* C4: an inference-mode call whose batch size differs from that of the
\* allocated cache gets a fresh cache of the new batch size, appends its
\* tokens from slot 0 (the fill pointer ends at min(T, ctx_len)) and raises
\* nothing.
C4_BatchChangeReallocates ==
    [][ ( /\ ~training'
          /\ k_cache # NoCache
          /\ k_cache.batch # B' )
        => /\ raised' = None
           /\ k_cache'.batch = B'
           /\ v_cache'.batch = B'
           /\ cache_filled' = Min(T', ctx_len)
           /\ \A i \in 0..(ctx_len - 1) :
                IF i < T'
                THEN /\ k_cache'.row[i] = CallKey(i)
                     /\ v_cache'.row[i] = CallValue(i)
                ELSE /\ k_cache'.row[i] = ZeroKey
                     /\ v_cache'.row[i] = ZeroValue ]_vars

\* A partly filled cache of another batch size was replaced.
C4_Witness ==
    /\ ~training
    /\ raised = None
    /\ old_batch # 0
    /\ old_batch # B
    /\ old_filled > T
    /\ k_cache.batch = B
    /\ cache_filled = T

\* C5: the first inference-mode call after a training-mode call appends from
\* slot 0, whatever the fill pointer was before: it ends with
\* cache_filled = min(T, ctx_len).
C5_TrainingResetsFillPointer ==
    [][ (training /\ T > 0 /\ ~training')
        => /\ cache_filled' = Min(T', ctx_len)
           /\ \A i \in 0..(T' - 1) : k_cache'.row[i] = CallKey(i) ]_vars

\* An inference call found an allocated cache of its own batch size with the
\* fill pointer at 0 (only a training call leaves it so) and appended from
\* slot 0; the slot after its tokens still holds an older session's key.
C5_Witness ==
    /\ ~training
    /\ old_batch = B
    /\ old_filled = 0
    /\ T < ctx_len
    /\ cache_filled = T
    /\ k_cache.row[T] # ZeroKey

(***************************************************************************)
(* Claims about the branch builders (specification SpecBranches).          *)
(***************************************************************************)
\* C10: the indices _select_important_tokens returns are strictly increasing,
\* min(num_tokens_to_keep, T) many, and all in 0..T-1.
C10_SelectedIndices ==
    T > 0 =>
        /\ Len(selected_indices) = Min(num_tokens_to_keep, T)
        /\ \A i \in 1..Len(selected_indices) : selected_indices[i] \in 0..(T - 1)
        /\ \A i \in 1..Len(selected_indices) : \A j \in 1..Len(selected_indices) :
              i < j => selected_indices[i] < selected_indices[j]

\* A selection among more tokens than are kept, in which a later token
\* outscored an earlier one that was kept too.
C10_Witness ==
    /\ T > num_tokens_to_keep
    /\ Len(selected_indices) = num_tokens_to_keep
    /\ selected_indices[1] > 0
    /\ importance_scores[selected_indices[2] + 1] > importance_scores[selected_indices[1] + 1]

(***************************************************************************)
(* Claims about the expert router and the bias balancer (specification     *)
(* SpecMoE).                                                               *)
(***************************************************************************)
\* The change the last update_expert_biases call made to the bias of expert e
\* of block blk.
BiasChange(blk, e) == expert_bias[blk][e] - bias_before[blk][e]

\* The router weights the last update_expert_biases call was given for blk.
WeightsOf(blk) == all_router_weights[WeightIndex(blk)]

One == RatDiv(1, 1)

\* C6: in one update, an expert whose observed load c_i is above the mean
\* load never gains bias relative to an expert whose load is below the mean.
C6_OverloadedNeverGains ==
    last_op = "update" =>
        \A blk \in MoEBlocks :
            LET c_i == ExpertLoad(WeightsOf(blk))
                c_i_bar == MeanLoad(c_i)
            IN  \A over \in Routable : \A under \in Routable :
                    (RatGreater(c_i[over], c_i_bar) /\ RatLess(c_i[under], c_i_bar))
                    => BiasChange(blk, over) <= BiasChange(blk, under)

\* C7: every row of router weights DSMoE.forward builds, for every token and
\* every value of the expert bias, sums to 1, has at most num_exp nonzero
\* entries and has 1/num_exp in column 0.
C7_RouterRowSumsToOne ==
    \A j \in DOMAIN all_router_weights : \A t \in MoETokens :
        LET row == all_router_weights[j][t]
        IN  /\ RatEq(RatSum(row, DOMAIN row), One)
            /\ Cardinality({e \in DOMAIN row : RatNonZero(row[e])}) <= num_exp
            /\ RatEq(row[0], RatDiv(1, num_exp))

\* C8: every entry of every row of router weights is nonnegative, whatever
\* bias the updates have led to from the all-zero bias.
C8_RouterWeightsNonNegative ==
    \A j \in DOMAIN all_router_weights : \A t \in MoETokens :
        \A e \in DOMAIN all_router_weights[j][t] :
            RatNonNeg(all_router_weights[j][t][e])

\* C9: one update_expert_biases call changes every component of every DSMoE
\* block's bias by +update_rate, -update_rate or 0, so the sum of a block's
\* bias changes by at most update_rate * (num_experts - 1) in absolute value.
C9_BiasStepIsSignedRate ==
    last_op = "update" =>
        \A blk \in MoEBlocks :
            /\ \A e \in Routable :
                  BiasChange(blk, e) \in {update_rate, 0 - update_rate, 0}
            /\ Abs(IntSum([e \in Routable |-> BiasChange(blk, e)], Routable))
                  <= update_rate * (num_experts - 1)

\* An update that raised one expert's bias, lowered another's and left a
\* third's, after biases had already moved.
C9_Witness ==
    /\ last_op = "update"
    /\ n_updates > 1
    /\ \E blk \in MoEBlocks :
          /\ \E e \in Routable : BiasChange(blk, e) = update_rate
          /\ \E e \in Routable : BiasChange(blk, e) = 0 - update_rate
          /\ \E e \in Routable : BiasChange(blk, e) = 0

(***************************************************************************)
(* Claims about the rotary positions of the selection branch               *)
(* (specification SpecBranches).                                           *)
(***************************************************************************)
\* C11: in the selection branch the key of each selected token is rotated by
\* the table row of the token's original index in the input sequence, not by
\* the row of its rank among the selected tokens.
C11_SelectedKeysKeepOriginalPosition ==
    \A i \in 1..Len(k_selected) :
        /\ k_selected[i].tok = selected_indices[i]
        /\ k_selected[i].pos = freqs_cis[selected_indices[i]]

(***************************************************************************)
(* Claims about the sliding-window branch (specification SpecBranches).    *)
(***************************************************************************)
\* C12: in inference mode the window branch of Attn.forward keeps at most
\* window_size tokens, all of them valid indices of the input in ascending
\* adjacent order, and exactly window_size of them when T > window_size.
C12_InferenceWindowIsBounded ==
    (~training /\ T > 0) =>
        /\ Len(window_tokens) <= window_size
        /\ \A i \in 1..Len(window_tokens) : window_tokens[i] \in 0..(T - 1)
        /\ \A i \in 1..(Len(window_tokens) - 1) :
              window_tokens[i + 1] = window_tokens[i] + 1
        /\ T > window_size => Len(window_tokens) = window_size

(***************************************************************************)
(* Claims about the rotary encoder (specification SpecRope).               *)
(***************************************************************************)
\* C13: apply_rope on a sequence longer than the table's capacity raises; on
\* a sequence no longer than the capacity it raises nothing and rotates
\* element i by row i of the table, which is still the table precomputed at
\* construction.
C13_RopeBeyondCapacityFails ==
    rope_x # <<>> =>
        /\ rope_table = precompute_freqs_cis(Capacity(rope_table))
        /\ Len(rope_x) > Capacity(rope_table) => rope_raised # None
        /\ Len(rope_x) <= Capacity(rope_table) =>
              /\ rope_raised = None
              /\ Len(rope_out) = Len(rope_x)
              /\ \A i \in 1..Len(rope_x) :
                    rope_out[i] = [tok |-> rope_x[i], pos |-> rope_table[i - 1]]

(***************************************************************************)
(* Claims about the selection count (specification SpecSelect).            *)
(***************************************************************************)
\* C14: in a module whose selection count num_tokens_to_keep is 0 or
\* negative, a forward call is rejected with an error: it does not get as far
\* as a selection, empty or not.
C14_NonPositiveCountRejected ==
    (tokens_to_keep <= 0 /\ T > 0) => branch_raised # None

(***************************************************************************)
(* Claims about generate (specification SpecGenerate).                     *)
(***************************************************************************)
\* C15: after the n-th iteration of generate from a fresh cache with a
\* prompt of P tokens, the fill pointer is min(ctx_len, P + n - 1), the
\* number of tokens fed so far, and cache slot i holds the key and value of
\* the token at position i.
C15_GenerateCachesEachTokenOnce ==
    gen_steps > 0 =>
        /\ cache_filled = Min(ctx_len, prompt_len + gen_steps - 1)
        /\ \A i \in 0..(cache_filled - 1) :
              /\ k_cache.row[i].tok = i
              /\ v_cache.row[i] = i

====
